---------------------------- MODULE Spec2Model ----------------------------
(***************************************************************************)
(* A model of mosaic: the one-shot window placement tool of src/main.rs.  *)
(*                                                                         *)
(* Six specifications share this module:                                   *)
(*   Spec      one run of main(): target resolution, frame conversion,     *)
(*             desktop selection, the dock fold, planning and the          *)
(*             _NET_MOVERESIZE_WINDOW command;                             *)
(*   PlanSpec  compute_new_box under repeated invocations against a fixed  *)
(*             available rectangle, the window manager applying each       *)
(*             planned rectangle before the next invocation;               *)
(*   DockSpec  the dock fold closure applied to a sequence of docks;       *)
(*   FoldSpec  the fold over all the docks of a snapshot;                  *)
(*   FrameSpec the frame conversion out and back;                          *)
(*   WalkSpec  the two loops over the parent links, an iteration a step.   *)
(*                                                                         *)
(* Coordinates are i16 (src/geom.rs).  Arithmetic on them wraps in a       *)
(* release build and panics in a debug build; both outcomes are modelled.  *)
(***************************************************************************)
EXTENDS Integers, Sequences, FiniteSets, TLC

(***************************************************************************)
(* i16 arithmetic                                                          *)
(***************************************************************************)
I16Min == -32768
I16Max == 32767
U16Modulus == 65536

Overflows16(n) == n < I16Min \/ n > I16Max

\* two's complement wrap of an integer into i16
Wrap16(n) == ((n - I16Min) % U16Modulus) + I16Min

\* i16::div_euclid: the quotient whose remainder is non-negative
div_euclid(a, b) == IF b > 0 THEN a \div b ELSE -(a \div (-b))

\* `v as u32` applied to an i16: sign extension.  The 32-bit word is kept as
\* its two 16-bit halves.
as_u32(v) == [hi |-> IF v < 0 THEN U16Modulus - 1 ELSE 0, lo |-> v % U16Modulus]

\* `v as i16` applied to a u32: truncation to the low 16 bits
as_i16(v) == Wrap16(v)

Min2(a, b) == IF a < b THEN a ELSE b
Max2(a, b) == IF a > b THEN a ELSE b

(***************************************************************************)
(* euclid geometry, as main.rs uses it                                     *)
(***************************************************************************)
Point(x, y) == [x |-> x, y |-> y]

\* Box2D::new(min, max)
Box2D(min, max) == [min |-> min, max |-> max]

Box(x1, y1, x2, y2) == Box2D(Point(x1, y1), Point(x2, y2))

\* Rect::new(origin, size)
Rect(x, y, w, h) == [origin |-> Point(x, y), size |-> [width |-> w, height |-> h]]

\* SideOffsets2D::new takes (top, right, bottom, left)
SideOffsets2D(top, right, bottom, left) ==
    [top |-> top, right |-> right, bottom |-> bottom, left |-> left]

\* Box2D::width / Box2D::height: max - min
width(b) == Wrap16(b.max.x - b.min.x)
height(b) == Wrap16(b.max.y - b.min.y)

\* Rect::to_box2d: min = origin, max = origin + size
to_box2d(r) ==
    Box2D(r.origin, Point(Wrap16(r.origin.x + r.size.width),
                          Wrap16(r.origin.y + r.size.height)))

\* Box2D::to_rect: origin = min, size = max - min
to_rect(b) == Rect(b.min.x, b.min.y, width(b), height(b))

\* Rect::translate(by)
translate_rect(r, v) ==
    [r EXCEPT !.origin = Point(Wrap16(r.origin.x + v.x), Wrap16(r.origin.y + v.y))]

\* Box2D::translate(by)
translate(b, v) ==
    Box2D(Point(Wrap16(b.min.x + v.x), Wrap16(b.min.y + v.y)),
          Point(Wrap16(b.max.x + v.x), Wrap16(b.max.y + v.y)))

\* Box2D::outer_box: the box grown by the offsets
outer_box(b, e) ==
    Box2D(Point(Wrap16(b.min.x - e.left), Wrap16(b.min.y - e.top)),
          Point(Wrap16(b.max.x + e.right), Wrap16(b.max.y + e.bottom)))

\* an inner box that applies the top offset to x and the left offset to y
inner_box_axes_swapped(b, e) ==
    Box2D(Point(Wrap16(b.min.x + e.top), Wrap16(b.min.y + e.left)),
          Point(Wrap16(b.max.x - e.right), Wrap16(b.max.y - e.bottom)))

\* whether outer_box, or inner_box, leaves the i16 range
outer_box_overflows(b, e) ==
    \/ Overflows16(b.min.x - e.left) \/ Overflows16(b.min.y - e.top)
    \/ Overflows16(b.max.x + e.right) \/ Overflows16(b.max.y + e.bottom)

inner_box_overflows(b, e) ==
    \/ Overflows16(b.min.x + e.left) \/ Overflows16(b.min.y + e.top)
    \/ Overflows16(b.max.x - e.right) \/ Overflows16(b.max.y - e.bottom)

\* Box2D::inner_box: the box shrunk by the offsets
inner_box(b, e) ==
    Box2D(Point(Wrap16(b.min.x + e.left), Wrap16(b.min.y + e.top)),
          Point(Wrap16(b.max.x - e.right), Wrap16(b.max.y - e.bottom)))

\* Box2D::is_empty
is_empty(b) == ~(b.max.x > b.min.x /\ b.max.y > b.min.y)

\* a containment test satisfied by a point inside the box on one axis only
contains_either_axis(b, p) ==
    \/ b.min.x <= p.x /\ p.x < b.max.x
    \/ b.min.y <= p.y /\ p.y < b.max.y

\* Box2D::contains(point): min inclusive, max exclusive
contains(b, p) ==
    /\ b.min.x <= p.x /\ p.x < b.max.x
    /\ b.min.y <= p.y /\ p.y < b.max.y

intersection_unchecked(a, b) ==
    Box2D(Point(Max2(a.min.x, b.min.x), Max2(a.min.y, b.min.y)),
          Point(Min2(a.max.x, b.max.x), Min2(a.max.y, b.max.y)))

NoBox == [none |-> TRUE]

\* Box2D::intersection: None (NoBox) when the overlap is empty
intersection(a, b) ==
    IF is_empty(intersection_unchecked(a, b)) THEN NoBox
    ELSE intersection_unchecked(a, b)

(***************************************************************************)
(* The planner: compute_new_box, compute_new_horiz, compute_new_vert       *)
(***************************************************************************)
HorizSpec == {"Current", "Left", "Left25", "Left50", "Left75",
              "Right", "Right25", "Right50", "Right75", "Full"}
VertSpec == {"Current", "Top", "Bottom", "Full"}

\* a cycling step that advances 50 -> 75 -> 25 instead of 50 -> 25 -> 75
cycle_horiz_reversed(current, c25, c50, c75) ==
    IF <<current.min.x, current.max.x>> = c50 THEN c75
    ELSE IF <<current.min.x, current.max.x>> = c75 THEN c25
    ELSE c50

\* a cycling step that leaves a window in no recognised state where it is
cycle_horiz_no_reset(current, c25, c50, c75) ==
    IF <<current.min.x, current.max.x>> = c50 THEN c25
    ELSE IF <<current.min.x, current.max.x>> = c25 THEN c75
    ELSE IF <<current.min.x, current.max.x>> = c75 THEN c50
    ELSE <<current.min.x, current.max.x>>

\* The decision of HorizSpec::Left and HorizSpec::Right: the same if/else
\* chain over the three candidates of that side.
cycle_horiz(current, c25, c50, c75) ==
    IF <<current.min.x, current.max.x>> = c50 THEN c25
    ELSE IF <<current.min.x, current.max.x>> = c25 THEN c75
    ELSE c50

RECURSIVE compute_new_horiz(_, _, _)
compute_new_horiz(current, avail, hspec) ==
    CASE hspec = "Current" -> <<current.min.x, current.max.x>>
      [] hspec = "Left25" ->
            <<avail.min.x, Wrap16(avail.min.x + div_euclid(width(avail), 4))>>
      [] hspec = "Left50" ->
            <<avail.min.x, Wrap16(avail.min.x + div_euclid(width(avail), 2))>>
      [] hspec = "Left75" ->
            <<avail.min.x,
              Wrap16(avail.min.x + div_euclid(Wrap16(width(avail) * 3), 4))>>
      [] hspec = "Right25" ->
            <<Wrap16(avail.max.x - div_euclid(width(avail), 4)), avail.max.x>>
      [] hspec = "Right50" ->
            <<Wrap16(avail.max.x - div_euclid(width(avail), 2)), avail.max.x>>
      [] hspec = "Right75" ->
            <<Wrap16(avail.max.x - div_euclid(Wrap16(width(avail) * 3), 4)),
              avail.max.x>>
      [] hspec = "Full" -> <<avail.min.x, avail.max.x>>
      [] hspec = "Left" ->
            LET c25 == compute_new_horiz(current, avail, "Left25")
                c50 == compute_new_horiz(current, avail, "Left50")
                c75 == compute_new_horiz(current, avail, "Left75")
            IN  cycle_horiz(current, c25, c50, c75)
      [] hspec = "Right" ->
            LET c25 == compute_new_horiz(current, avail, "Right25")
                c50 == compute_new_horiz(current, avail, "Right50")
                c75 == compute_new_horiz(current, avail, "Right75")
            IN  cycle_horiz(current, c25, c50, c75)

\* a vertical planner that halves the bottom edge instead of the height
compute_new_vert_edge(current, avail, vspec) ==
    CASE vspec = "Current" -> <<current.min.y, current.max.y>>
      [] vspec = "Top" ->
            <<avail.min.y, Wrap16(avail.min.y + div_euclid(avail.max.y, 2))>>
      [] vspec = "Bottom" ->
            <<Wrap16(avail.max.y - div_euclid(avail.max.y, 2)), avail.max.y>>
      [] vspec = "Full" -> <<avail.min.y, avail.max.y>>

compute_new_vert(current, avail, vspec) ==
    CASE vspec = "Current" -> <<current.min.y, current.max.y>>
      [] vspec = "Top" ->
            <<avail.min.y, Wrap16(avail.min.y + div_euclid(height(avail), 2))>>
      [] vspec = "Bottom" ->
            <<Wrap16(avail.max.y - div_euclid(height(avail), 2)), avail.max.y>>
      [] vspec = "Full" -> <<avail.min.y, avail.max.y>>

\* a planner whose horizontal result gives way to a Full vertical spec
compute_new_box_coupled(current, avail, hspec, vspec) ==
    LET h == compute_new_horiz(current, avail, IF vspec = "Full" THEN "Full" ELSE hspec)
        v == compute_new_vert(current, avail, vspec)
    IN  Box2D(Point(h[1], v[1]), Point(h[2], v[2]))

compute_new_box(current, avail, hspec, vspec) ==
    LET h == compute_new_horiz(current, avail, hspec)
        v == compute_new_vert(current, avail, vspec)
    IN  Box2D(Point(h[1], v[1]), Point(h[2], v[2]))

\* Whether compute_new_horiz leaves the i16 range in one of its
\* subtractions, multiplications or additions (a debug build panics there).
RECURSIVE horiz_overflows(_, _)
horiz_overflows(avail, hspec) ==
    LET w == avail.max.x - avail.min.x
        w3 == Wrap16(w) * 3
    IN  CASE hspec \in {"Current", "Full"} -> FALSE
          [] hspec \in {"Left25", "Left50"} ->
                \/ Overflows16(w)
                \/ Overflows16(avail.min.x
                       + div_euclid(Wrap16(w), IF hspec = "Left25" THEN 4 ELSE 2))
          [] hspec = "Left75" ->
                \/ Overflows16(w) \/ Overflows16(w3)
                \/ Overflows16(avail.min.x + div_euclid(Wrap16(w3), 4))
          [] hspec \in {"Right25", "Right50"} ->
                \/ Overflows16(w)
                \/ Overflows16(avail.max.x
                       - div_euclid(Wrap16(w), IF hspec = "Right25" THEN 4 ELSE 2))
          [] hspec = "Right75" ->
                \/ Overflows16(w) \/ Overflows16(w3)
                \/ Overflows16(avail.max.x - div_euclid(Wrap16(w3), 4))
          [] hspec = "Left" ->
                \E s \in {"Left25", "Left50", "Left75"} : horiz_overflows(avail, s)
          [] hspec = "Right" ->
                \E s \in {"Right25", "Right50", "Right75"} : horiz_overflows(avail, s)

vert_overflows(avail, vspec) ==
    LET h == avail.max.y - avail.min.y
    IN  CASE vspec \in {"Current", "Full"} -> FALSE
          [] vspec = "Top" ->
                \/ Overflows16(h)
                \/ Overflows16(avail.min.y + div_euclid(Wrap16(h), 2))
          [] vspec = "Bottom" ->
                \/ Overflows16(h)
                \/ Overflows16(avail.max.y - div_euclid(Wrap16(h), 2))

plan_overflows(avail, hspec, vspec) ==
    horiz_overflows(avail, hspec) \/ vert_overflows(avail, vspec)

(***************************************************************************)
(* The dock fold of main(): one dock subtracted from the available box     *)
(***************************************************************************)
Last(seq) == seq[Len(seq)]

\* the outcome of `regions.pop().unwrap()` on an empty vector
PoppedNone == [panic |-> "unwrap on None"]

\* candidate regions whose last one, below the dock, starts at the dock's
\* top edge instead of its bottom edge
dock_regions_below_from_top(avail, overlap) ==
    (IF avail.min.x < overlap.min.x
        THEN <<Box2D(avail.min, Point(overlap.min.x, avail.max.y))>> ELSE <<>>)
    \o (IF avail.max.x > overlap.max.x
        THEN <<Box2D(Point(overlap.max.x, avail.min.y), avail.max)>> ELSE <<>>)
    \o (IF avail.min.y < overlap.min.y
        THEN <<Box2D(avail.min, Point(avail.max.x, overlap.min.y))>> ELSE <<>>)
    \o (IF avail.max.y > overlap.max.y
        THEN <<Box2D(Point(avail.min.x, overlap.min.y), avail.max)>> ELSE <<>>)

\* candidate regions above and below the dock only
dock_regions_vertical_only(avail, overlap) ==
    (IF avail.min.y < overlap.min.y
        THEN <<Box2D(avail.min, Point(avail.max.x, overlap.min.y))>> ELSE <<>>)
    \o (IF avail.max.y > overlap.max.y
        THEN <<Box2D(Point(avail.min.x, overlap.max.y), avail.max)>> ELSE <<>>)

\* the candidate regions in the order they are pushed
dock_regions(avail, overlap) ==
    (IF avail.min.x < overlap.min.x
        THEN <<Box2D(avail.min, Point(overlap.min.x, avail.max.y))>> ELSE <<>>)
    \o (IF avail.max.x > overlap.max.x
        THEN <<Box2D(Point(overlap.max.x, avail.min.y), avail.max)>> ELSE <<>>)
    \o (IF avail.min.y < overlap.min.y
        THEN <<Box2D(avail.min, Point(avail.max.x, overlap.min.y))>> ELSE <<>>)
    \o (IF avail.max.y > overlap.max.y
        THEN <<Box2D(Point(avail.min.x, overlap.max.y), avail.max)>> ELSE <<>>)

\* a fold closure without the arm for a dock that covers the available box
dock_fold_no_cover_arm(avail, dock) ==
    LET overlap == intersection(avail, dock)
    IN  IF overlap = NoBox THEN avail
        ELSE IF dock_regions(avail, overlap) = <<>> THEN PoppedNone
        ELSE Last(dock_regions(avail, overlap))

\* a fold closure that takes the first candidate pushed instead of the last
dock_fold_takes_first(avail, dock) ==
    LET overlap == intersection(avail, dock)
    IN  IF overlap # NoBox /\ overlap = avail THEN avail
        ELSE IF overlap = NoBox THEN avail
        ELSE IF dock_regions(avail, overlap) = <<>> THEN PoppedNone
        ELSE Head(dock_regions(avail, overlap))

\* the fold closure: `dock` is the dock's absolute box
dock_fold(avail, dock) ==
    LET overlap == intersection(avail, dock)
    IN  IF overlap # NoBox /\ overlap = avail THEN avail
        ELSE IF overlap = NoBox THEN avail
        ELSE IF dock_regions(avail, overlap) = <<>> THEN PoppedNone
        ELSE Last(dock_regions(avail, overlap))


(***************************************************************************)
(* The snapshot: Context::window_group                                     *)
(***************************************************************************)
\* the root window's resource id; 0 is X's None and never names a window
RootId == 1

SetMin(S) == CHOOSE m \in S : \A n \in S : m <= n

\* a panic: an index into a slice that is too short
BoundsPanic == [panic |-> "index out of bounds"]

\* a GetProperty(WM_STATE) reply: whether the property's type is WM_STATE,
\* and its values (the state, then the icon window); NormalState is 1
StateReply(is_wm_state, value) == [wm_state |-> is_wm_state, value |-> value]
NoState == StateReply(FALSE, <<>>)

\* WM_STATE of a client in NormalState, without icon window
NormalState == StateReply(TRUE, <<1, 0>>)

\* `state_prop.r#type() == self.atoms.wm_state && state_prop.value::<u32>()[0] == 1`
\* on a reply whose value is not empty
in_normal_state(reply) == reply.wm_state /\ reply.value[1] = 1

\* the same test on any reply: the value of a WM_STATE property is indexed
\* without a look at its length
state_test_panics(reply) == reply.wm_state /\ Len(reply.value) = 0

\* a snapshot that takes every window in NormalState as selectable whatever
\* its type, and every dock and desktop whatever its state
window_group_by_flag(x_parent, x_typ, x_state, x_geom, x_failed) ==
    LET kept == (DOMAIN x_parent) \ x_failed
    IN  IF \E id \in kept \ {RootId} : state_test_panics(x_state[id]) THEN BoundsPanic
        ELSE
        [ windows |->
            [ id \in kept |->
                [ id |-> id,
                  geom |-> Rect(x_geom[id].x, x_geom[id].y,
                                as_i16(x_geom[id].width), as_i16(x_geom[id].height)),
                  typ |-> x_typ[id] ] ],
          root |-> IF RootId \in kept THEN RootId ELSE 0,
          desktop |-> { id \in kept : x_typ[id] = "Desktop" },
          dock |-> { id \in kept : x_typ[id] = "Dock" },
          selectable |-> { id \in kept : in_normal_state(x_state[id]) },
          parents |-> [ id \in kept |-> x_parent[id] ] ]

\* The outcome of Context::window_group on the server's replies.  x_parent
\* is the tree QueryTree reports (the root is handed its own id as parent),
\* x_typ the _NET_WM_WINDOW_TYPE of each window ("Root" for the root),
\* x_state the GetProperty(WM_STATE) reply, x_geom the GetGeometry reply and
\* x_failed the windows one of whose three replies is an error: those are
\* left out.  The root is listed without a look at its WM_STATE; any other
\* window that is kept has its WM_STATE tested, and the test panics on a
\* WM_STATE property without a value: then no snapshot is built.
window_group(x_parent, x_typ, x_state, x_geom, x_failed) ==
    LET kept == (DOMAIN x_parent) \ x_failed
        listed(t) == { id \in kept : (id = RootId \/ in_normal_state(x_state[id]))
                                        /\ x_typ[id] = t }
    IN  IF \E id \in kept \ {RootId} : state_test_panics(x_state[id]) THEN BoundsPanic
        ELSE
        [ windows |->
            [ id \in kept |->
                [ id |-> id,
                  geom |-> Rect(x_geom[id].x, x_geom[id].y,
                                as_i16(x_geom[id].width), as_i16(x_geom[id].height)),
                  typ |-> x_typ[id] ] ],
          root |-> IF listed("Root") = {} THEN 0 ELSE SetMin(listed("Root")),
          desktop |-> listed("Desktop"),
          dock |-> listed("Dock"),
          selectable |-> listed("Normal"),
          parents |-> [ id \in kept |-> x_parent[id] ] ]

(***************************************************************************)
(* Target resolution: the 'target block of main()                          *)
(***************************************************************************)
\* a panic: an index into a BTreeMap that has no such key
IndexPanic == [panic |-> "no entry found for key"]
NotFound == [found |-> FALSE]
Found(id) == [found |-> TRUE, id |-> id]

\* the `while id > 0 && id != root` loop: the first selectable proper ancestor
RECURSIVE parent_walk(_, _)
parent_walk(w, id) ==
    IF ~(id > 0 /\ id # RootId) THEN NotFound
    ELSE IF id \notin DOMAIN w.parents THEN IndexPanic
    ELSE IF w.parents[id] \in w.selectable THEN Found(w.parents[id])
    ELSE parent_walk(w, w.parents[id])

\* a child scan that descends: any selectable descendant qualifies
RECURSIVE child_scan_deep(_, _)
child_scan_deep(w, orig_id) ==
    LET kids == { cid \in DOMAIN w.parents : w.parents[cid] = orig_id /\ cid # orig_id }
        hits == { cid \in kids : cid \in w.selectable
                                   \/ child_scan_deep(w, cid) # NotFound }
    IN  IF hits = {} THEN NotFound
        ELSE IF SetMin(hits) \in w.selectable THEN Found(SetMin(hits))
        ELSE child_scan_deep(w, SetMin(hits))

\* the scan of `wg.parents` (ascending child id) for a selectable window
\* whose parent is the requested one
child_scan(w, orig_id) ==
    LET hits == { cid \in DOMAIN w.parents :
                    w.parents[cid] = orig_id /\ cid \in w.selectable }
    IN  IF hits = {} THEN NotFound ELSE Found(SetMin(hits))

\* a block that scans the children before it walks the parents
resolve_target_child_first(w, id) ==
    IF id \in w.selectable THEN Found(id)
    ELSE IF child_scan(w, id) # NotFound THEN child_scan(w, id)
    ELSE parent_walk(w, id)

\* the whole block: Found(id), NotFound (the warn! and return) or IndexPanic
resolve_target(w, id) ==
    IF id \in w.selectable THEN Found(id)
    ELSE IF parent_walk(w, id) # NotFound THEN parent_walk(w, id)
    ELSE child_scan(w, id)

(***************************************************************************)
(* Absolute geometry, desktop selection and the fold over the docks        *)
(***************************************************************************)
\* the loop of Context::window_abs_xlate: the geometry translated by the
\* origin of every ancestor up to the root
RECURSIVE abs_walk(_, _, _)
abs_walk(w, id, geom) ==
    IF id = RootId THEN geom
    ELSE IF id \notin DOMAIN w.parents THEN IndexPanic
    ELSE IF w.parents[id] \notin DOMAIN w.windows THEN IndexPanic
    ELSE abs_walk(w, w.parents[id],
                  translate_rect(geom, w.windows[w.parents[id]].geom.origin))

window_abs_xlate(w, id) ==
    LET geom == abs_walk(w, id, w.windows[id].geom)
    IN  IF geom = IndexPanic THEN IndexPanic
        ELSE Point(Wrap16(geom.origin.x - w.windows[id].geom.origin.x),
                   Wrap16(geom.origin.y - w.windows[id].geom.origin.y))

\* `ctx.window(id).geom.translate(ctx.window_abs_xlate(..)).to_box2d()`
abs_box(w, id) ==
    IF window_abs_xlate(w, id) = IndexPanic THEN IndexPanic
    ELSE to_box2d(translate_rect(w.windows[id].geom, window_abs_xlate(w, id)))

\* a selection that examines the desktops in descending id order
RECURSIVE select_desktop_descending(_, _, _)
select_desktop_descending(w, ids, p) ==
    LET d == CHOOSE m \in ids : \A n \in ids : m >= n
    IN  IF ids = {} THEN NotFound
        ELSE IF abs_box(w, d) = IndexPanic THEN IndexPanic
        ELSE IF contains(abs_box(w, d), p) THEN abs_box(w, d)
        ELSE select_desktop_descending(w, ids \ {d}, p)

\* the desktops in ascending id order, the first whose box contains the
\* point: that box, NotFound, or the panic met before a match
RECURSIVE select_desktop(_, _, _)
select_desktop(w, ids, p) ==
    IF ids = {} THEN NotFound
    ELSE IF abs_box(w, SetMin(ids)) = IndexPanic THEN IndexPanic
    ELSE IF contains(abs_box(w, SetMin(ids)), p) THEN abs_box(w, SetMin(ids))
    ELSE select_desktop(w, ids \ {SetMin(ids)}, p)

\* `wg.dock.iter().fold(avail_box, ..)`: the docks in ascending id order
RECURSIVE fold_docks(_, _, _)
fold_docks(w, ids, avail) ==
    IF ids = {} THEN avail
    ELSE IF abs_box(w, SetMin(ids)) = IndexPanic THEN IndexPanic
    ELSE IF dock_fold(avail, abs_box(w, SetMin(ids))) = PoppedNone THEN PoppedNone
    ELSE fold_docks(w, ids \ {SetMin(ids)}, dock_fold(avail, abs_box(w, SetMin(ids))))

(***************************************************************************)
(* Frame extents and the command                                           *)
(***************************************************************************)
\* Context::window_frame_extents on a reply: a property that is not a
\* CARDINAL gives zero offsets, a CARDINAL holds <<left, right, top, bottom>>
\* and is indexed without a look at its length, so one with fewer than four
\* values panics (at v[2], or at v[3] when there are three)
window_frame_extents(reply) ==
    IF ~reply.cardinal THEN SideOffsets2D(0, 0, 0, 0)
    ELSE IF Len(reply.value) < 4 THEN BoundsPanic
    ELSE SideOffsets2D(as_i16(reply.value[3]), as_i16(reply.value[2]),
                       as_i16(reply.value[4]), as_i16(reply.value[1]))

\* X | Y | WIDTH | HEIGHT | GRAVITY_NORTH_WEST
MoveResizeFlags == 3841

\* framed_box, offset_box and new_geom of main()
new_geom_of(new_box, e) ==
    to_rect(translate(inner_box(new_box, e), Point(-e.left, -e.top)))

\* the ClientMessageEvent for the target
moveresize_event(target_id, geom) ==
    [ window |-> target_id,
      data |-> << MoveResizeFlags, as_u32(geom.origin.x), as_u32(geom.origin.y),
                  as_u32(geom.size.width), as_u32(geom.size.height) >> ]

(***************************************************************************)
(* State                                                                   *)
(***************************************************************************)
VARIABLES
    \* PlanSpec: the planner under repeated invocations
    p_avail,      \* the available rectangle, the same at every invocation
    p_current,    \* the window's rectangle as the next invocation reads it
    p_prev,       \* the rectangle the last invocation read
    p_hspec,      \* --horiz of the last invocation ("none" before the first)
    p_vspec,      \* --vert of the last invocation
    p_status,     \* "idle", "ok" or "panic": how the last invocation ended
    p_cyc_h,      \* the cycling spec being repeated, "none" when there is none
    p_cyc_n,      \* invocations of p_cyc_h since the window sat at its 50% span, mod 3
    \* DockSpec: the dock fold
    d_avail,      \* the fold's accumulator
    d_prev,       \* the accumulator before the last step
    d_dock,       \* the dock box of the last step (NoBox before the first)
    d_n,          \* docks folded so far
    \* Spec: one run of main()
    wg,           \* the WindowGroup snapshot, built once and only read
    pc,           \* where main() stands: "start", "resolved", "unframed",
                  \* "desktop", "avail" or "exited"
    orig_id,      \* the id the target argument named
    target_id,    \* the resolved target
    frame_extents,
    current_box,  \* the target's box grown by its frame extents
    avail_box,    \* the desktop's box, then what the docks leave of it
    hspec,        \* --horiz
    vspec,        \* --vert
    new_box,      \* compute_new_box's result
    sent,         \* the SendEvent requests made, in order
    exit_code,    \* the exit status once pc = "exited": 0 for Ok(()), 1 for
                  \* Err, 101 for a panic
    diag,         \* what the run reported: "none", "unresolved", "nodesktop",
                  \* "error" or "panic"
    \* FrameSpec: the frame conversion on its own
    f_box,        \* a window's box
    f_reply,      \* the _NET_FRAME_EXTENTS reply
    f_unframed,   \* outer_box of f_box
    f_reframed,   \* inner_box of f_unframed
    f_pc,         \* "start", "unframed", "reframed" or "panic"
    \* WalkSpec: the two loops over the parent links, one iteration a step
    k_wg,         \* the snapshot the loop reads
    k_start,      \* the id the loop starts from
    k_id,         \* the loop's `id`
    k_geom,       \* the `geom` of window_abs_xlate's loop
    k_steps,      \* iterations of the loop body so far
    k_pc,         \* "parent_loop", "found", "fell_through", "abs_loop" or
                  \* "abs_done"
    \* FoldSpec: the whole fold over the docks
    g_desktop,    \* the desktop's box the fold starts from
    g_avail,      \* the fold's accumulator
    g_kept,       \* one of the dock boxes folded so far, any of them (NoBox
                  \* while none is singled out)
    g_n           \* docks folded so far

planVars == <<p_avail, p_current, p_prev, p_hspec, p_vspec, p_status, p_cyc_h, p_cyc_n>>

dockVars == <<d_avail, d_prev, d_dock, d_n>>

runVars == <<wg, pc, orig_id, target_id, frame_extents, current_box, avail_box,
             hspec, vspec, new_box, sent, exit_code, diag>>

frameVars == <<f_box, f_reply, f_unframed, f_reframed, f_pc>>

walkVars == <<k_wg, k_start, k_id, k_geom, k_steps, k_pc>>

foldVars == <<g_desktop, g_avail, g_kept, g_n>>

vars == <<planVars, dockVars, runVars, frameVars, walkVars, foldVars>>

foldIdle == g_desktop = NoBox /\ g_avail = NoBox /\ g_kept = NoBox /\ g_n = 0

walkIdle ==
    /\ k_wg = NoBox /\ k_start = 0 /\ k_id = 0 /\ k_geom = NoBox /\ k_steps = 0
    /\ k_pc = "idle"

NoReply == [cardinal |-> FALSE, value |-> <<>>]

frameIdle ==
    /\ f_box = NoBox /\ f_reply = NoReply /\ f_unframed = NoBox /\ f_reframed = NoBox
    /\ f_pc = "idle"

NoExtents == SideOffsets2D(0, 0, 0, 0)

\* the run's variables in a specification that does not run main()
runIdle ==
    /\ wg = NoBox /\ pc = "idle" /\ orig_id = 0 /\ target_id = 0
    /\ frame_extents = NoExtents /\ current_box = NoBox /\ avail_box = NoBox
    /\ hspec = "none" /\ vspec = "none" /\ new_box = NoBox
    /\ sent = <<>> /\ exit_code = 0 /\ diag = "none"

dockIdle == d_avail = NoBox /\ d_prev = NoBox /\ d_dock = NoBox /\ d_n = 0

(***************************************************************************)
(* PlanSpec                                                                *)
(***************************************************************************)
\* widths 0..MaxWidth and heights 0..MaxHeight of the small available rectangles
MaxWidth == 6
MaxHeight == 2

PlanOrigins == {-3, 0}

SmallAvail ==
    { Box(x, 0, x + w, h) : x \in PlanOrigins, w \in 0..MaxWidth, h \in 0..MaxHeight }

\* a desktop minus a 20px top dock; three 4K monitors side by side; rectangles
\* whose width, or three times it, leaves the i16 range
LargeAvail ==
    { Box(0, 20, 1920, 1080),
      Box(0, 0, 10922, 2160),
      Box(0, 0, 11520, 2160),
      Box(0, 0, I16Max, I16Max),
      Box(-20000, -20000, 20000, 20000),
      Box(I16Min, 0, I16Max, 1080),
      Box(30000, 30000, I16Max, I16Max) }

PlanAvail == SmallAvail \cup LargeAvail

PlanCurrent == { Box(100, 100, 900, 700), Box(0, 0, 2, 2) }

xspan(b) == <<b.min.x, b.max.x>>
yspan(b) == <<b.min.y, b.max.y>>

half_of(h) == IF h = "Left" THEN "Left50" ELSE "Right50"

PlanInit ==
    /\ p_avail \in PlanAvail
    /\ p_current \in PlanCurrent
    /\ p_prev = p_current
    /\ p_hspec = "none"
    /\ p_vspec = "none"
    /\ p_status = "idle"
    /\ p_cyc_h = "none"
    /\ p_cyc_n = 0
    /\ dockIdle
    /\ runIdle
    /\ frameIdle
    /\ walkIdle /\ foldIdle

\* One invocation that runs to the end: the planned rectangle becomes the
\* window's rectangle before the next invocation.
PlanOk(h, v) ==
    /\ p_prev' = p_current
    /\ p_current' = compute_new_box(p_current, p_avail, h, v)
    /\ p_hspec' = h
    /\ p_vspec' = v
    /\ p_status' = "ok"
    /\ IF h \in {"Left", "Right"} /\ p_cyc_h = h
       THEN p_cyc_h' = h /\ p_cyc_n' = (p_cyc_n + 1) % 3
       ELSE IF /\ h \in {"Left", "Right"}
               /\ xspan(p_current) = compute_new_horiz(p_current, p_avail, half_of(h))
            THEN p_cyc_h' = h /\ p_cyc_n' = 1
            ELSE p_cyc_h' = "none" /\ p_cyc_n' = 0
    /\ UNCHANGED <<p_avail, dockVars, runVars, frameVars, walkVars, foldVars>>

\* One invocation of a build with overflow checks whose arithmetic leaves the
\* i16 range: the process panics and the window stays where it is.
PlanPanic(h, v) ==
    /\ plan_overflows(p_avail, h, v)
    /\ p_prev' = p_current
    /\ p_hspec' = h
    /\ p_vspec' = v
    /\ p_status' = "panic"
    /\ p_cyc_h' = "none"
    /\ p_cyc_n' = 0
    /\ UNCHANGED <<p_avail, p_current, dockVars, runVars, frameVars, walkVars, foldVars>>

PlanNext ==
    \E h \in HorizSpec, v \in VertSpec : PlanOk(h, v) \/ PlanPanic(h, v)

PlanSpec == PlanInit /\ [][PlanNext]_vars

(***************************************************************************)
(* DockSpec                                                                *)
(***************************************************************************)
\* dock and desktop corners lie on the grid 0..GridMaxX by 0..GridMaxY
GridMaxX == 3
GridMaxY == 3
\* docks folded in one run
MaxDocks == 3

GridBoxes ==
    { Box(x1, y1, x2, y2) : x1 \in 0..GridMaxX, x2 \in 0..GridMaxX,
                            y1 \in 0..GridMaxY, y2 \in 0..GridMaxY }

DockDesktops == { Box(0, 0, GridMaxX, GridMaxY), Box(0, 0, 1920, 1080) }

DockBoxes ==
    { b \in GridBoxes : b.min.x <= b.max.x /\ b.min.y <= b.max.y }
        \cup { Box(0, 0, 1920, 20), Box(1900, 0, 1920, 1080) }

planIdle ==
    /\ p_avail = NoBox /\ p_current = NoBox /\ p_prev = NoBox
    /\ p_hspec = "none" /\ p_vspec = "none" /\ p_status = "idle"
    /\ p_cyc_h = "none" /\ p_cyc_n = 0

DockInit ==
    /\ d_avail \in DockDesktops
    /\ d_prev = d_avail
    /\ d_dock = NoBox
    /\ d_n = 0
    /\ planIdle
    /\ runIdle
    /\ frameIdle
    /\ walkIdle /\ foldIdle

\* One step of `wg.dock.iter().fold(avail_box, ...)`.
FoldDock(dock) ==
    /\ d_n < MaxDocks
    /\ d_avail # PoppedNone
    /\ d_prev' = d_avail
    /\ d_dock' = dock
    /\ d_avail' = dock_fold(d_avail, dock)
    /\ d_n' = d_n + 1
    /\ UNCHANGED <<planVars, runVars, frameVars, walkVars, foldVars>>

DockNext == \E dock \in DockBoxes : FoldDock(dock)

DockSpec == DockInit /\ [][DockNext]_vars

(***************************************************************************)
(* Spec: one run of main()                                                 *)
(***************************************************************************)
\* windows 1..NWin exist on the server, 1 being the root
NWin == 4
\* windows one of whose replies is an error
MaxFailed == 1

Wins == 1..NWin

\* the ids a target argument can name: 0, the windows, and an id the
\* snapshot has never heard of
StartIds == 0..(NWin + 1)

\* every tree on the windows in which a window's parent has a smaller id
Trees ==
    { f \in [Wins -> Wins] : f[RootId] = RootId /\ \A i \in Wins \ {RootId} : f[i] < i }

Reply(x, y, w, h) == [x |-> x, y |-> y, width |-> w, height |-> h]

RootReply == [typ |-> "Root", state |-> NoState, geom |-> Reply(0, 0, 8, 6)]

\* what a window other than the root can be: a frame or container without
\* WM_STATE, a client, a dock, a desktop (one of them three 4K monitors
\* wide), a client in IconicState (3), a window whose WM_STATE property has
\* no value
WindowReplies ==
    { [typ |-> "Normal", state |-> NoState, geom |-> Reply(1, 0, 6, 6)],
      [typ |-> "Normal", state |-> NormalState, geom |-> Reply(2, 3, 7, 4)],
      [typ |-> "Normal", state |-> NormalState, geom |-> Reply(0, 0, 4, 3)],
      [typ |-> "Dock", state |-> NormalState, geom |-> Reply(0, 0, 8, 1)],
      [typ |-> "Dock", state |-> NormalState, geom |-> Reply(6, 0, 2, 6)],
      [typ |-> "Desktop", state |-> NormalState, geom |-> Reply(0, 0, 8, 6)],
      [typ |-> "Desktop", state |-> NormalState, geom |-> Reply(0, 0, 11520, 2160)],
      [typ |-> "Normal", state |-> StateReply(TRUE, <<3, 0>>), geom |-> Reply(0, 0, 4, 3)],
      [typ |-> "Normal", state |-> StateReply(TRUE, <<>>), geom |-> Reply(0, 0, 4, 3)] }

\* _NET_FRAME_EXTENTS replies: no such property; left 1, right 2, top 3,
\* bottom 1; a CARDINAL property of two values only
ExtentsReplies ==
    { [cardinal |-> FALSE, value |-> <<>>],
      [cardinal |-> TRUE, value |-> <<1, 2, 3, 1>>],
      [cardinal |-> TRUE, value |-> <<1, 2>>] }

Init ==
    /\ \E x_parent \in Trees,
          x \in [Wins \ {RootId} -> WindowReplies],
          x_failed \in { F \in SUBSET Wins : Cardinality(F) <= MaxFailed } :
         LET r == [id \in Wins |-> IF id = RootId THEN RootReply ELSE x[id]]
         IN  wg = window_group(x_parent,
                               [id \in Wins |-> r[id].typ],
                               [id \in Wins |-> r[id].state],
                               [id \in Wins |-> r[id].geom],
                               x_failed)
    /\ pc = "start"
    /\ orig_id = 0 /\ target_id = 0
    /\ frame_extents = NoExtents /\ current_box = NoBox /\ avail_box = NoBox
    /\ hspec = "none" /\ vspec = "none" /\ new_box = NoBox
    /\ sent = <<>> /\ exit_code = 0 /\ diag = "none"
    /\ planIdle /\ dockIdle /\ frameIdle
    /\ walkIdle /\ foldIdle

\* `return` from main(), or the unwinding of a panic
Exit(code, report) ==
    /\ pc' = "exited"
    /\ exit_code' = code
    /\ diag' = report

\* Context::window_group panics on a WM_STATE property without a value:
\* main() is left before the 'target block.
WindowGroupPanics ==
    /\ pc = "start"
    /\ wg = BoundsPanic
    /\ Exit(101, "panic")
    /\ UNCHANGED <<wg, orig_id, target_id, frame_extents, current_box, avail_box, hspec,
                   vspec, new_box, sent, planVars, dockVars, frameVars, walkVars, foldVars>>

\* The 'target block finds a selectable window.
ResolveFound(id) ==
    /\ pc = "start"
    /\ wg # BoundsPanic
    /\ resolve_target(wg, id) \notin {NotFound, IndexPanic}
    /\ orig_id' = id
    /\ target_id' = resolve_target(wg, id).id
    /\ pc' = "resolved"
    /\ UNCHANGED <<wg, frame_extents, current_box, avail_box, hspec, vspec, new_box,
                   sent, exit_code, diag, planVars, dockVars, frameVars, walkVars, foldVars>>

\* The 'target block finds none: warn! and `return Ok(())`.
ResolveUnresolved(id) ==
    /\ pc = "start"
    /\ wg # BoundsPanic
    /\ resolve_target(wg, id) = NotFound
    /\ orig_id' = id
    /\ Exit(0, "unresolved")
    /\ UNCHANGED <<wg, target_id, frame_extents, current_box, avail_box, hspec, vspec,
                   new_box, sent, planVars, dockVars, frameVars, walkVars, foldVars>>

\* The parent walk indexes `wg.parents` with an id it does not hold.
ResolvePanics(id) ==
    /\ pc = "start"
    /\ wg # BoundsPanic
    /\ resolve_target(wg, id) = IndexPanic
    /\ orig_id' = id
    /\ Exit(101, "panic")
    /\ UNCHANGED <<wg, target_id, frame_extents, current_box, avail_box, hspec, vspec,
                   new_box, sent, planVars, dockVars, frameVars, walkVars, foldVars>>

\* --active: the _NET_ACTIVE_WINDOW request fails and `?` returns the error.
ActiveQueryFails ==
    /\ pc = "start"
    /\ wg # BoundsPanic
    /\ Exit(1, "error")
    /\ UNCHANGED <<wg, orig_id, target_id, frame_extents, current_box, avail_box, hspec,
                   vspec, new_box, sent, planVars, dockVars, frameVars, walkVars, foldVars>>

\* --active: the request succeeds but the root has no _NET_ACTIVE_WINDOW, so
\* the reply's value is empty and `active_prop.value()[0]` panics.
ActiveValueEmpty ==
    /\ pc = "start"
    /\ wg # BoundsPanic
    /\ Exit(101, "panic")
    /\ UNCHANGED <<wg, orig_id, target_id, frame_extents, current_box, avail_box, hspec,
                   vspec, new_box, sent, planVars, dockVars, frameVars, walkVars, foldVars>>

\* current_box, frame_extents and unframed_box.
Unframe(reply) ==
    /\ pc = "resolved"
    /\ window_frame_extents(reply) # BoundsPanic
    /\ frame_extents' = window_frame_extents(reply)
    /\ current_box' = outer_box(to_box2d(wg.windows[target_id].geom),
                                window_frame_extents(reply))
    /\ pc' = "unframed"
    /\ UNCHANGED <<wg, orig_id, target_id, avail_box, hspec, vspec, new_box, sent,
                   exit_code, diag, planVars, dockVars, frameVars, walkVars, foldVars>>

\* The _NET_FRAME_EXTENTS reply is a CARDINAL of fewer than four values:
\* window_frame_extents panics on the index.
ExtentsPanics(reply) ==
    /\ pc = "resolved"
    /\ window_frame_extents(reply) = BoundsPanic
    /\ Exit(101, "panic")
    /\ UNCHANGED <<wg, orig_id, target_id, frame_extents, current_box, avail_box, hspec,
                   vspec, new_box, sent, planVars, dockVars, frameVars, walkVars, foldVars>>

\* The _NET_FRAME_EXTENTS request fails and `?` returns the error.
ExtentsQueryFails ==
    /\ pc = "resolved"
    /\ Exit(1, "error")
    /\ UNCHANGED <<wg, orig_id, target_id, frame_extents, current_box, avail_box, hspec,
                   vspec, new_box, sent, planVars, dockVars, frameVars, walkVars, foldVars>>

\* Desktop selection: the first desktop that contains current_box.min.
DesktopFound ==
    /\ pc = "unframed"
    /\ select_desktop(wg, wg.desktop, current_box.min) \notin {NotFound, IndexPanic}
    /\ avail_box' = select_desktop(wg, wg.desktop, current_box.min)
    /\ pc' = "desktop"
    /\ UNCHANGED <<wg, orig_id, target_id, frame_extents, current_box, hspec, vspec,
                   new_box, sent, exit_code, diag, planVars, dockVars, frameVars, walkVars, foldVars>>

\* no desktop matches and the run goes on with the window's own box as the
\* available area
DesktopNone_falls_through ==
    /\ pc = "unframed"
    /\ select_desktop(wg, wg.desktop, current_box.min) = NotFound
    /\ avail_box' = current_box
    /\ pc' = "desktop"
    /\ UNCHANGED <<wg, orig_id, target_id, frame_extents, current_box, hspec, vspec,
                   new_box, sent, exit_code, diag, planVars, dockVars, frameVars, walkVars, foldVars>>

\* No desktop matches: warn! and `return Ok(())`.
DesktopNone ==
    /\ pc = "unframed"
    /\ select_desktop(wg, wg.desktop, current_box.min) = NotFound
    /\ Exit(0, "nodesktop")
    /\ UNCHANGED <<wg, orig_id, target_id, frame_extents, current_box, avail_box, hspec,
                   vspec, new_box, sent, planVars, dockVars, frameVars, walkVars, foldVars>>

\* window_abs_xlate of a desktop indexes a window the snapshot does not hold.
DesktopPanics ==
    /\ pc = "unframed"
    /\ select_desktop(wg, wg.desktop, current_box.min) = IndexPanic
    /\ Exit(101, "panic")
    /\ UNCHANGED <<wg, orig_id, target_id, frame_extents, current_box, avail_box, hspec,
                   vspec, new_box, sent, planVars, dockVars, frameVars, walkVars, foldVars>>

\* The fold over the docks; it panics when window_abs_xlate of a dock indexes
\* a window the snapshot does not hold, or on the unwrap of no region.
DocksFolded ==
    /\ pc = "desktop"
    /\ IF fold_docks(wg, wg.dock, avail_box) \in {IndexPanic, PoppedNone}
       THEN Exit(101, "panic") /\ UNCHANGED avail_box
       ELSE /\ avail_box' = fold_docks(wg, wg.dock, avail_box)
            /\ pc' = "avail"
            /\ UNCHANGED <<exit_code, diag>>
    /\ UNCHANGED <<wg, orig_id, target_id, frame_extents, current_box, hspec, vspec,
                   new_box, sent, planVars, dockVars, frameVars, walkVars, foldVars>>

\* compute_new_box, the conversion to the geometry requested, SendEvent and
\* flush; a failed flush returns the error after the request was made.
PlanAndSend(h, v, flushed) ==
    /\ pc = "avail"
    /\ hspec' = h
    /\ vspec' = v
    /\ new_box' = compute_new_box(current_box, avail_box, h, v)
    /\ sent' = Append(sent, moveresize_event(target_id,
                   new_geom_of(compute_new_box(current_box, avail_box, h, v),
                               frame_extents)))
    /\ IF flushed THEN Exit(0, "none") ELSE Exit(1, "error")
    /\ UNCHANGED <<wg, orig_id, target_id, frame_extents, current_box, avail_box,
                   planVars, dockVars, frameVars, walkVars, foldVars>>

\* A build with overflow checks panics in compute_new_horiz or
\* compute_new_vert before anything is sent.
PlanPanics(h, v) ==
    /\ pc = "avail"
    /\ plan_overflows(avail_box, h, v)
    /\ hspec' = h
    /\ vspec' = v
    /\ Exit(101, "panic")
    /\ UNCHANGED <<wg, orig_id, target_id, frame_extents, current_box, avail_box,
                   new_box, sent, planVars, dockVars, frameVars, walkVars, foldVars>>

Next ==
    \/ WindowGroupPanics
    \/ \E id \in StartIds : ResolveFound(id) \/ ResolveUnresolved(id) \/ ResolvePanics(id)
    \/ ActiveQueryFails
    \/ ActiveValueEmpty
    \/ \E reply \in ExtentsReplies : Unframe(reply) \/ ExtentsPanics(reply)
    \/ ExtentsQueryFails
    \/ DesktopFound
    \/ DesktopNone
    \/ DesktopPanics
    \/ DocksFolded
    \/ \E h \in HorizSpec, v \in VertSpec :
          \/ \E flushed \in BOOLEAN : PlanAndSend(h, v, flushed)
          \/ PlanPanics(h, v)

Spec == Init /\ [][Next]_vars

(***************************************************************************)
(* FrameSpec: unframe, then reframe with the same extents                  *)
(***************************************************************************)
\* each CARDINAL of a frame extents reply lies in 0..MaxInset
MaxInset == 2

FrameBoxes ==
    { Box(0, 0, 4, 3), Box(2, 3, 5, 5), Box(100, 100, 900, 700), Box(-5, -7, -1, -2),
      Box(3, 3, 3, 3), Box(I16Min, I16Min, I16Max, I16Max), Box(I16Min + 1, 0, 10, I16Max - 1) }

\* absent, every small reply, a reply whose left is 0xFFFF (-1 as i16), and
\* replies of three values and of none
FrameReplies ==
    { [cardinal |-> TRUE, value |-> <<l, r, t, b>>] :
          l \in 0..MaxInset, r \in 0..MaxInset, t \in 0..MaxInset, b \in 0..MaxInset }
        \cup { NoReply, [cardinal |-> TRUE, value |-> <<U16Modulus - 1, 0, 1, 0>>],
               [cardinal |-> TRUE, value |-> <<1, 2, 1>>],
               [cardinal |-> TRUE, value |-> <<>>] }

FrameInit ==
    /\ f_box \in FrameBoxes
    /\ f_reply = NoReply
    /\ f_unframed = NoBox
    /\ f_reframed = NoBox
    /\ f_pc = "start"
    /\ planIdle /\ dockIdle /\ runIdle
    /\ walkIdle /\ foldIdle

\* `current_box.outer_box(frame_extents)`
FrameUnframe(reply) ==
    /\ f_pc = "start"
    /\ window_frame_extents(reply) # BoundsPanic
    /\ f_reply' = reply
    /\ f_unframed' = outer_box(f_box, window_frame_extents(reply))
    /\ f_pc' = "unframed"
    /\ UNCHANGED <<f_box, f_reframed, planVars, dockVars, runVars, walkVars, foldVars>>

\* `new_box.inner_box(frame_extents)` on the unframed box
FrameReframe ==
    /\ f_pc = "unframed"
    /\ f_reframed' = inner_box(f_unframed, window_frame_extents(f_reply))
    /\ f_pc' = "reframed"
    /\ UNCHANGED <<f_box, f_reply, f_unframed, planVars, dockVars, runVars, walkVars, foldVars>>

\* a reply of fewer than four values panics on the index; a build with
\* overflow checks panics where a corner leaves the i16 range
FramePanics(reply) ==
    /\ f_pc = "start"
    /\ IF window_frame_extents(reply) = BoundsPanic THEN TRUE
       ELSE outer_box_overflows(f_box, window_frame_extents(reply))
    /\ f_reply' = reply
    /\ f_pc' = "panic"
    /\ UNCHANGED <<f_box, f_unframed, f_reframed, planVars, dockVars, runVars, walkVars, foldVars>>

FrameNext ==
    \/ \E reply \in FrameReplies : FrameUnframe(reply) \/ FramePanics(reply)
    \/ FrameReframe

FrameSpec == FrameInit /\ [][FrameNext]_vars

(***************************************************************************)
(* FoldSpec: the fold over all the docks of a snapshot                     *)
(***************************************************************************)
FoldInit ==
    /\ g_desktop \in DockDesktops
    /\ g_avail = g_desktop
    /\ g_kept = NoBox
    /\ g_n = 0
    /\ planIdle /\ dockIdle /\ runIdle /\ frameIdle /\ walkIdle

\* One step of `wg.dock.iter().fold(avail_box, ...)`; `keep` singles this
\* dock out as the one whose relation to the result is observed.
FoldNextDock(dock, keep) ==
    /\ g_n < MaxDocks
    /\ g_avail # PoppedNone
    /\ g_avail' = dock_fold(g_avail, dock)
    /\ g_kept' = IF keep THEN dock ELSE g_kept
    /\ g_n' = g_n + 1
    /\ UNCHANGED <<g_desktop, planVars, dockVars, runVars, frameVars, walkVars>>

FoldNext == \E dock \in DockBoxes, keep \in BOOLEAN : FoldNextDock(dock, keep)

FoldSpec == FoldInit /\ [][FoldNext]_vars

(***************************************************************************)

(* WalkSpec: the loops over the parent links, one iteration at a time      *)
(***************************************************************************)
\* `wg.parents[&id]`: the step both loops take
parent_of(w, id) == w.parents[id]

RECURSIVE Climb(_, _, _)
Climb(f, id, n) == IF n = 0 THEN id ELSE Climb(f, f[id], n - 1)

\* every tree on the windows: the root is its own parent and every window's
\* parent links lead to the root
WalkTrees ==
    { f \in [Wins -> Wins] :
        f[RootId] = RootId /\ \A i \in Wins : Climb(f, i, NWin) = RootId }

\* the snapshot of a tree whose windows in S are clients in NormalState, the
\* others frames; window id lies at (id, 2 id) in its parent
walk_group(f, S) ==
    window_group(f,
                 [id \in Wins |-> IF id = RootId THEN "Root" ELSE "Normal"],
                 [id \in Wins |-> IF id \in S THEN NormalState ELSE NoState],
                 [id \in Wins |-> Reply(id, 2 * id, 8, 6)],
                 {})

WalkInit ==
    /\ \E f \in WalkTrees, S \in SUBSET (Wins \ {RootId}) : k_wg = walk_group(f, S)
    /\ \/ /\ k_pc = "parent_loop"
          /\ k_start \in (0..NWin) \ k_wg.selectable
          /\ k_geom = NoBox
       \/ /\ k_pc = "abs_loop"
          /\ k_start \in Wins
          /\ k_geom = k_wg.windows[k_start].geom
    /\ k_id = k_start
    /\ k_steps = 0
    /\ planIdle /\ dockIdle /\ runIdle /\ frameIdle /\ foldIdle

\* one iteration of `while id > 0 && id != root` in the 'target block
ParentWalkStep ==
    /\ k_pc = "parent_loop"
    /\ k_id > 0 /\ k_id # RootId
    /\ k_id' = parent_of(k_wg, k_id)
    /\ k_steps' = k_steps + 1
    /\ k_pc' = IF parent_of(k_wg, k_id) \in k_wg.selectable THEN "found"
               ELSE "parent_loop"
    /\ UNCHANGED <<k_wg, k_start, k_geom, planVars, dockVars, runVars, frameVars, foldVars>>

\* the loop condition fails: on to the child scan
ParentWalkEnds ==
    /\ k_pc = "parent_loop"
    /\ ~(k_id > 0 /\ k_id # RootId)
    /\ k_pc' = "fell_through"
    /\ UNCHANGED <<k_wg, k_start, k_id, k_geom, k_steps, planVars, dockVars, runVars,
                   frameVars, foldVars>>

\* one iteration of `while id != root` in window_abs_xlate
AbsWalkStep ==
    /\ k_pc = "abs_loop"
    /\ k_id # RootId
    /\ k_id' = parent_of(k_wg, k_id)
    /\ k_geom' = translate_rect(k_geom,
                                k_wg.windows[parent_of(k_wg, k_id)].geom.origin)
    /\ k_steps' = k_steps + 1
    /\ UNCHANGED <<k_wg, k_start, k_pc, planVars, dockVars, runVars, frameVars, foldVars>>

\* the loop condition fails: window_abs_xlate returns
AbsWalkEnds ==
    /\ k_pc = "abs_loop"
    /\ k_id = RootId
    /\ k_pc' = "abs_done"
    /\ UNCHANGED <<k_wg, k_start, k_id, k_geom, k_steps, planVars, dockVars, runVars,
                   frameVars, foldVars>>

WalkNext == ParentWalkStep \/ ParentWalkEnds \/ AbsWalkStep \/ AbsWalkEnds

WalkSpec == WalkInit /\ [][WalkNext]_vars

\* the process keeps running: a loop that can take a step takes it
WalkLiveSpec == WalkSpec /\ WF_vars(WalkNext)

(***************************************************************************)

(* Claims about the planner (PlanSpec)                                     *)
(***************************************************************************)
FixedHoriz == {"Left25", "Left50", "Left75", "Right25", "Right50", "Right75", "Full"}

\* the fixed-fraction spec a cycling spec has reached n invocations after 50%
CycleSpec(h, n) ==
    CASE h = "Left" /\ n = 0 -> "Left50"
      [] h = "Left" /\ n = 1 -> "Left25"
      [] h = "Left" /\ n = 2 -> "Left75"
      [] h = "Right" /\ n = 0 -> "Right50"
      [] h = "Right" /\ n = 1 -> "Right25"
      [] h = "Right" /\ n = 2 -> "Right75"

\* the 25%, 50% and 75% spans of side h are pairwise distinct
CandidatesDistinct(h) ==
    \A m, n \in 0..2 :
        m # n => compute_new_horiz(p_current, p_avail, CycleSpec(h, m))
                    # compute_new_horiz(p_current, p_avail, CycleSpec(h, n))

\* C1: with distinct candidates, k consecutive invocations of Left (of Right)
\* that began at the Left50 (Right50) span leave the window at the 50%, 25%
\* or 75% span as k mod 3 is 0, 1 or 2: the cycle 50 -> 25 -> 75 -> 50 repeats
\* for as long as the spec is repeated.
C1_CycleRepeats ==
    (p_cyc_h # "none" /\ CandidatesDistinct(p_cyc_h))
        => xspan(p_current)
             = compute_new_horiz(p_current, p_avail, CycleSpec(p_cyc_h, p_cyc_n))

\* a third consecutive Left has brought the window back to the Left50 span
C1_Witness ==
    /\ p_cyc_h = "Left" /\ p_cyc_n = 0 /\ p_hspec = "Left" /\ p_status = "ok"
    /\ CandidatesDistinct("Left")
    /\ xspan(p_prev) = compute_new_horiz(p_prev, p_avail, "Left75")

ScenarioInvoked ==
    /\ p_status = "ok"
    /\ p_prev = Box(100, 100, 900, 700)
    /\ p_avail = Box(0, 20, 1920, 1080)
    /\ p_hspec = "Left50" /\ p_vspec = "Top"

\* C2 as amended: the scenario (current [(100,100)-(900,700)], available
\* [(0,20)-(1920,1080)], spec (Left50, Top)) plans [(0,20)-(960,550)]: half
\* the available height 1060 below the top edge 20.
C2_ScenarioPlans550 == ScenarioInvoked => p_current = Box(0, 20, 960, 550)

C2_Witness == ScenarioInvoked /\ p_current.max.y = 550

\* C2 as claimed: the scenario plans [(0,20)-(960,560)].
C2_ScenarioPlans560 == ScenarioInvoked => p_current = Box(0, 20, 960, 560)

\* C3 as claimed: for every available rectangle with min.x <= max.x and every
\* fixed-fraction spec or Full, the planned span lies inside the available
\* span: A.min.x <= x1 <= x2 <= A.max.x.
C3_HorizContained ==
    (/\ p_status = "ok"
     /\ p_hspec \in FixedHoriz
     /\ p_avail.min.x <= p_avail.max.x)
        => /\ p_avail.min.x <= p_current.min.x
           /\ p_current.min.x <= p_current.max.x
           /\ p_current.max.x <= p_avail.max.x

(***************************************************************************)
(* Claims about the dock fold (DockSpec)                                   *)
(***************************************************************************)
\* the overlap of the last step's dock with the accumulator it met
LastOverlap == intersection(d_prev, d_dock)

\* C6: a fold step whose dock does not intersect the available rectangle, or
\* whose overlap with it is the whole available rectangle (so also a dock
\* equal to it), leaves the available rectangle as it was.
C6_DockIgnored ==
    (d_n > 0 /\ (LastOverlap = NoBox \/ LastOverlap = d_prev \/ d_dock = d_prev))
        => d_avail = d_prev

\* a step folded a dock equal to a non-empty available rectangle that an
\* earlier dock had already reduced
C6_Witness ==
    /\ d_n > 1 /\ d_dock = d_prev /\ ~is_empty(d_prev) /\ d_avail = d_prev
    /\ d_prev \notin DockDesktops

LeftOfDock(a, o) == Box(a.min.x, a.min.y, o.min.x, a.max.y)
RightOfDock(a, o) == Box(o.max.x, a.min.y, a.max.x, a.max.y)
AboveDock(a, o) == Box(a.min.x, a.min.y, a.max.x, o.min.y)
BelowDock(a, o) == Box(a.min.x, o.max.y, a.max.x, a.max.y)

\* C7: a fold step whose overlap O with the available rectangle A is
\* non-empty and differs from A leaves below-dock if O.max.y < A.max.y, else
\* above-dock if A.min.y < O.min.y, else right-of-dock if O.max.x < A.max.x,
\* else left-of-dock; dock [(0,0)-(1920,20)] against [(0,0)-(1920,1080)]
\* leaves [(0,20)-(1920,1080)].
C7_LastCandidate ==
    /\ (d_n > 0 /\ LastOverlap # NoBox /\ LastOverlap # d_prev)
          => d_avail =
               IF LastOverlap.max.y < d_prev.max.y THEN BelowDock(d_prev, LastOverlap)
               ELSE IF d_prev.min.y < LastOverlap.min.y THEN AboveDock(d_prev, LastOverlap)
               ELSE IF LastOverlap.max.x < d_prev.max.x THEN RightOfDock(d_prev, LastOverlap)
               ELSE LeftOfDock(d_prev, LastOverlap)
    /\ (d_n > 0 /\ d_prev = Box(0, 0, 1920, 1080) /\ d_dock = Box(0, 0, 1920, 20))
          => d_avail = Box(0, 20, 1920, 1080)

\* the top dock of the scenario was folded into the whole desktop
C7_Witness ==
    /\ d_n = 1 /\ d_prev = Box(0, 0, 1920, 1080) /\ d_dock = Box(0, 0, 1920, 20)
    /\ d_avail = Box(0, 20, 1920, 1080)

(***************************************************************************)
(* Claims about a run of main() (Spec)                                     *)
(***************************************************************************)
\* Context::window_group returned a snapshot
SnapshotBuilt == wg # BoundsPanic

\* the 'target block has run on the snapshot: on orig_id, or, with orig_id
\* still 0, as far as the panic on an empty _NET_ACTIVE_WINDOW
ResolutionRan == SnapshotBuilt /\ pc # "start" /\ ~(diag = "error" /\ target_id = 0)

\* the parent links lead from id to the root within the snapshot
RECURSIVE ReachesRoot(_)
ReachesRoot(id) ==
    \/ id = RootId
    \/ id \in DOMAIN wg.parents /\ ReachesRoot(wg.parents[id])

RECURSIVE ProperAncestors(_)
ProperAncestors(id) ==
    IF id = RootId \/ id \notin DOMAIN wg.parents THEN {}
    ELSE {wg.parents[id]} \cup ProperAncestors(wg.parents[id])

SelectableChildren(id) ==
    { c \in wg.selectable : c \in DOMAIN wg.parents /\ wg.parents[c] = id }

\* a non-selectable window of the snapshot whose chain reaches the root
\* without a selectable ancestor
FallbackStart(id) ==
    /\ id \in DOMAIN wg.windows
    /\ id \notin wg.selectable
    /\ ReachesRoot(id)
    /\ ProperAncestors(id) \cap wg.selectable = {}

\* C8: resolving a non-selectable window without selectable ancestor returns
\* its selectable immediate child of least id when it has one, and never a
\* window that is not its immediate child.
C8_ChildFallback ==
    (ResolutionRan /\ FallbackStart(orig_id))
        => /\ SelectableChildren(orig_id) # {}
                => target_id = SetMin(SelectableChildren(orig_id))
           /\ target_id # 0 => target_id \in SelectableChildren(orig_id)

\* the fallback chose between two selectable children
C8_Witness ==
    /\ ResolutionRan /\ FallbackStart(orig_id)
    /\ Cardinality(SelectableChildren(orig_id)) > 1
    /\ target_id = SetMin(SelectableChildren(orig_id))
    /\ orig_id # RootId

\* C9 as claimed: a run that reports UnresolvedTarget or NoDesktop exits
\* non-zero, and a run that exits 0 has sent the command.
C9_FailureExitsNonZero ==
    pc = "exited"
        => /\ diag \in {"unresolved", "nodesktop"} => exit_code # 0
           /\ exit_code = 0 => sent # <<>>

\* C10: at most one command is sent; one is sent only for a selectable target
\* on a desktop that contains its corner; a run that reports UnresolvedTarget
\* or NoDesktop has sent none.
C10_AtMostOneCommand ==
    /\ Len(sent) <= 1
    /\ sent # <<>>
          => /\ target_id \in wg.selectable
             /\ resolve_target(wg, orig_id) = Found(target_id)
             /\ select_desktop(wg, wg.desktop, current_box.min) \notin {NotFound, IndexPanic}
    /\ diag \in {"unresolved", "nodesktop"} => sent = <<>>

\* a run has sent its one command
C10_Witness ==
    /\ pc = "exited" /\ Len(sent) = 1 /\ exit_code = 0
    /\ sent[1].window = target_id /\ wg.dock # {}

\* the sizes asked of the server: the planned size less the frame
ContentWidth == Wrap16((new_box.max.x - new_box.min.x)
                          - (frame_extents.left + frame_extents.right))
ContentHeight == Wrap16((new_box.max.y - new_box.min.y)
                          - (frame_extents.top + frame_extents.bottom))

\* C5 as claimed: the command names the target, its origin is the planned
\* rectangle's min moved inward by (left, top), its size the planned size
\* minus the frame.
C5_SendsContentOrigin ==
    sent # <<>>
        => sent[1] = [ window |-> target_id,
                       data |-> << MoveResizeFlags,
                                   as_u32(Wrap16(new_box.min.x + frame_extents.left)),
                                   as_u32(Wrap16(new_box.min.y + frame_extents.top)),
                                   as_u32(ContentWidth), as_u32(ContentHeight) >> ]

(***************************************************************************)
(* Claims about the frame conversion (FrameSpec)                           *)
(***************************************************************************)
\* the insets of the reply, as the protocol orders them
ReplyLeft == IF f_reply.cardinal THEN as_i16(f_reply.value[1]) ELSE 0
ReplyRight == IF f_reply.cardinal THEN as_i16(f_reply.value[2]) ELSE 0
ReplyTop == IF f_reply.cardinal THEN as_i16(f_reply.value[3]) ELSE 0
ReplyBottom == IF f_reply.cardinal THEN as_i16(f_reply.value[4]) ELSE 0

InsetsNonNegative == ReplyLeft >= 0 /\ ReplyRight >= 0 /\ ReplyTop >= 0 /\ ReplyBottom >= 0

\* C4: with non-negative insets, unframe moves min by (-left, -top) and max
\* by (+right, +bottom), in i16, and reframe with the same extents gives the
\* box back exactly.
C4_FrameRoundTrip ==
    /\ (f_pc \in {"unframed", "reframed"} /\ InsetsNonNegative)
          => f_unframed = Box(Wrap16(f_box.min.x - ReplyLeft), Wrap16(f_box.min.y - ReplyTop),
                              Wrap16(f_box.max.x + ReplyRight),
                              Wrap16(f_box.max.y + ReplyBottom))
    /\ (f_pc = "reframed" /\ InsetsNonNegative) => f_reframed = f_box

\* a box went out and back through four different positive insets
C4_Witness ==
    /\ f_pc = "reframed" /\ f_reframed = f_box /\ f_unframed # f_box
    /\ ReplyLeft > 0 /\ ReplyTop > ReplyLeft /\ ReplyRight > 0 /\ ReplyBottom > 0

(***************************************************************************)
(* Claims about desktop selection (Spec)                                   *)
(***************************************************************************)
\* desktop selection has run: the target's box is known and main() has left
\* the selection behind
DesktopStageDone == current_box # NoBox /\ pc # "unframed"

\* the run ended inside desktop selection by a panic
DesktopStagePanicked ==
    DesktopStageDone /\ pc = "exited" /\ diag = "panic" /\ avail_box = NoBox

\* every window between id and the root is held by the snapshot
AncestorsKept(id) == ProperAncestors(id) \subseteq DOMAIN wg.windows

RECURSIVE SumOrigins(_)
SumOrigins(S) ==
    IF S = {} THEN Point(0, 0)
    ELSE LET id == CHOOSE s \in S : TRUE
             rest == SumOrigins(S \ {id})
         IN  Point(Wrap16(rest.x + wg.windows[id].geom.origin.x),
                   Wrap16(rest.y + wg.windows[id].geom.origin.y))

\* a window's rectangle in root coordinates: its geometry moved by the
\* origins of all its ancestors
AbsoluteRect(id) ==
    LET g == wg.windows[id].geom
        o == SumOrigins(ProperAncestors(id))
    IN  Box(Wrap16(g.origin.x + o.x), Wrap16(g.origin.y + o.y),
            Wrap16(g.origin.x + o.x + g.size.width),
            Wrap16(g.origin.y + o.y + g.size.height))

\* the point lies in the rectangle, its max edges excluded
CornerInside(r, p) ==
    r.min.x <= p.x /\ p.x < r.max.x /\ r.min.y <= p.y /\ p.y < r.max.y

\* the two rectangles share a pixel
Overlaps(a, b) ==
    /\ Max2(a.min.x, b.min.x) < Min2(a.max.x, b.max.x)
    /\ Max2(a.min.y, b.min.y) < Min2(a.max.y, b.max.y)

\* the desktops whose absolute rectangle holds the target's top-left corner
DesktopsMatching ==
    { d \in wg.desktop : AncestorsKept(d) /\ CornerInside(AbsoluteRect(d), current_box.min) }

DesktopsIntersecting ==
    { d \in wg.desktop : AncestorsKept(d) /\ Overlaps(AbsoluteRect(d), current_box) }

\* the area two rectangles share
OverlapArea(a, b) ==
    IF ~Overlaps(a, b) THEN 0
    ELSE (Min2(a.max.x, b.max.x) - Max2(a.min.x, b.min.x))
            * (Min2(a.max.y, b.max.y) - Max2(a.min.y, b.min.y))

\* C16: the desktop selected is the one of least id among the desktops whose
\* absolute rectangle (geometry moved by the origins of all ancestors)
\* contains the target rectangle's top-left corner, whatever the later
\* desktops overlap.
C16_FirstDesktopWins ==
    pc = "desktop"
        => /\ DesktopsMatching # {}
           /\ avail_box = AbsoluteRect(SetMin(DesktopsMatching))

\* the first of two matching desktops was selected although the second
\* shares more area with the target
C16_Witness ==
    /\ pc = "desktop"
    /\ \E d \in DesktopsMatching :
          /\ d > SetMin(DesktopsMatching)
          /\ OverlapArea(AbsoluteRect(d), current_box)
                > OverlapArea(AbsoluteRect(SetMin(DesktopsMatching)), current_box)
    /\ avail_box = AbsoluteRect(SetMin(DesktopsMatching))

C12_MinimumSize ==
    (/\ p_status = "ok"
     /\ p_avail.max.x - p_avail.min.x >= 1
     /\ p_avail.max.y - p_avail.min.y >= 1)
        => /\ p_hspec # "Current" => p_current.max.x - p_current.min.x >= 1
           /\ p_vspec # "Current" => p_current.max.y - p_current.min.y >= 1

(***************************************************************************)
(* Claims about dropped windows and resolution (Spec)                      *)
(***************************************************************************)
\* the run ended by the panic on a short _NET_FRAME_EXTENTS reply: a target
\* was resolved and its box was never computed
ExtentsStagePanicked ==
    pc = "exited" /\ diag = "panic" /\ target_id # 0 /\ current_box = NoBox

\* the windows of the server that the snapshot left out
Dropped == Wins \ DOMAIN wg.windows

\* C13 as claimed: a run on a snapshot from which windows were dropped, for
\* a starting window the snapshot holds, never aborts in resolution, in the
\* absolute-origin computation or in desktop and dock processing: the only
\* panics left to it are the one on a short _NET_FRAME_EXTENTS reply and an
\* arithmetic one inside the planner.
C13_DroppedNotFatal ==
    (SnapshotBuilt /\ pc = "exited" /\ Dropped # {} /\ orig_id \in DOMAIN wg.windows)
        => (diag = "panic" => hspec # "none" \/ ExtentsStagePanicked)

\* the span that covers num/den of the available width on the given side,
\* in i16 arithmetic
SideSpan(side, num, den) ==
    LET part == Wrap16(Wrap16(width(p_avail) * num) \div den)
    IN  IF side = "Left" THEN <<p_avail.min.x, Wrap16(p_avail.min.x + part)>>
        ELSE <<Wrap16(p_avail.max.x - part), p_avail.max.x>>

\* C14: an invocation of Left (of Right) plans the 25% span of that side if
\* the window's span was the 50% span; otherwise the 75% span if it was the
\* 25% span; otherwise, from the 75% span or any other, the 50% span.  The
\* test against the 50% span comes first, so it decides when the 25% and
\* 50% spans coincide.
C14_CyclingRule ==
    (p_status = "ok" /\ p_hspec \in {"Left", "Right"})
        => xspan(p_current) =
             IF xspan(p_prev) = SideSpan(p_hspec, 1, 2) THEN SideSpan(p_hspec, 1, 4)
             ELSE IF xspan(p_prev) = SideSpan(p_hspec, 1, 4) THEN SideSpan(p_hspec, 3, 4)
             ELSE SideSpan(p_hspec, 1, 2)

\* Right was invoked on a window in no recognised state and reset it to the
\* 50% span, the three spans being distinct
C14_Witness ==
    /\ p_status = "ok" /\ p_hspec = "Right"
    /\ xspan(p_prev) \notin {SideSpan("Right", 1, 4), SideSpan("Right", 1, 2),
                             SideSpan("Right", 3, 4)}
    /\ xspan(p_current) = SideSpan("Right", 1, 2)
    /\ SideSpan("Right", 1, 4) # SideSpan("Right", 1, 2)
    /\ SideSpan("Right", 3, 4) # SideSpan("Right", 1, 2)

\* the chain id, parent(id), parent(parent(id)), ... as far as the
\* snapshot's parent links lead, the root ending it
RECURSIVE ChainFrom(_)
ChainFrom(id) ==
    IF id = RootId \/ id \notin DOMAIN wg.parents THEN <<id>>
    ELSE <<id>> \o ChainFrom(wg.parents[id])

\* the positions of the selectable windows on the chain from orig_id
SelectableOnChain ==
    { i \in 1..Len(ChainFrom(orig_id)) : ChainFrom(orig_id)[i] \in wg.selectable }

\* C15: when the chain orig_id, parent, grandparent, ..., root holds a
\* selectable window, resolution returns the first one: orig_id itself when
\* it is selectable, else its nearest selectable ancestor, whether or not
\* orig_id has a selectable child.
C15_NearestOnChain ==
    (ResolutionRan /\ SelectableOnChain # {})
        => target_id = ChainFrom(orig_id)[SetMin(SelectableOnChain)]

\* a non-selectable window with a selectable child resolved to its
\* selectable ancestor
C15_Witness ==
    /\ ResolutionRan /\ orig_id \notin wg.selectable
    /\ SelectableChildren(orig_id) # {}
    /\ target_id \in ProperAncestors(orig_id) \cap wg.selectable
    /\ target_id \notin SelectableChildren(orig_id)

\* C17 as claimed: for every starting id (0, the root, a window, an id the
\* snapshot does not hold) resolution ends with a selectable target or with
\* UnresolvedTarget reported, and in no other way.
C17_ResolutionTotal ==
    ResolutionRan
        => \/ target_id \in wg.selectable
           \/ pc = "exited" /\ diag = "unresolved" /\ target_id = 0

(***************************************************************************)
(* Claims about the walks over the parent links (WalkLiveSpec)             *)
(***************************************************************************)
\* the number of parent links between a window and the root
RECURSIVE WalkDepth(_)
WalkDepth(id) ==
    IF id = 0 \/ id = RootId THEN 0 ELSE 1 + WalkDepth(k_wg.parents[id])

WalkEnded == k_pc \in {"found", "fell_through", "abs_done"}

\* C18, its premise: on a snapshot whose parent links form a tree rooted at
\* the root, the resolver's ancestor walk and the absolute-origin walk never
\* take more iterations than the depth of the window they start from, and
\* each of them ends.
C18_WalksTerminate ==
    /\ [](k_steps <= WalkDepth(k_start))
    /\ <>WalkEnded

\* the ancestor walk climbed three links to the root, found nothing
\* selectable and went on to the child scan
C18_Witness ==
    /\ k_pc = "fell_through" /\ k_steps = 3 /\ WalkDepth(k_start) = 3
    /\ k_id = RootId

(***************************************************************************)
(* The end of a run on a tree snapshot (Spec)                              *)
(***************************************************************************)
\* the failures main() reports: the two warnings and an error returned
ReportedFailures == {"unresolved", "nodesktop", "error"}

\* C18 as claimed: on a snapshot whose parent links form a tree rooted at
\* the root (no window was dropped from it), a run that has ended has sent
\* the command or has reported a failure.
C18_RunsEndReported ==
    (SnapshotBuilt /\ Dropped = {} /\ pc = "exited")
        => (sent # <<>> \/ diag \in ReportedFailures)

(***************************************************************************)
(* Per-axis independence of the planner (PlanSpec)                         *)
(***************************************************************************)
\* other spans an axis could have had
OtherSpans == { <<0, 1>>, <<-5, 7>>, <<20, 1080>> }

WithXSpan(b, s) == Box(s[1], b.min.y, s[2], b.max.y)
WithYSpan(b, s) == Box(b.min.x, s[1], b.max.x, s[2])

\* C19: the planned x-span is the same for every vertical spec and every
\* y-span of the current and available rectangles, the planned y-span the
\* same for every horizontal spec and every x-span (so the Left/Right
\* cycling decision does not see the vertical inputs); a Current spec on an
\* axis returns the current span of that axis.
C19_AxesIndependent ==
    p_status = "ok"
        => /\ \A v \in VertSpec, cy \in OtherSpans, ay \in OtherSpans :
                 xspan(compute_new_box(WithYSpan(p_prev, cy), WithYSpan(p_avail, ay),
                                       p_hspec, v)) = xspan(p_current)
           /\ \A h \in HorizSpec, cx \in OtherSpans, ax \in OtherSpans :
                 yspan(compute_new_box(WithXSpan(p_prev, cx), WithXSpan(p_avail, ax),
                                       h, p_vspec)) = yspan(p_current)
           /\ p_hspec = "Current" => xspan(p_current) = xspan(p_prev)
           /\ p_vspec = "Current" => yspan(p_current) = yspan(p_prev)

\* Left met the window at the 50% span and planned the 25% span while Full
\* replaced the window's y-span
C19_Witness ==
    /\ p_status = "ok" /\ p_hspec = "Left" /\ p_vspec = "Full"
    /\ xspan(p_prev) = SideSpan("Left", 1, 2)
    /\ xspan(p_current) = SideSpan("Left", 1, 4)
    /\ xspan(p_current) # xspan(p_prev)
    /\ yspan(p_current) # yspan(p_prev)

(***************************************************************************)
(* The result of the whole fold (FoldSpec)                                 *)
(***************************************************************************)
\* rectangle a lies inside rectangle b
Inside(a, b) ==
    /\ b.min.x <= a.min.x /\ a.max.x <= b.max.x
    /\ b.min.y <= a.min.y /\ a.max.y <= b.max.y

\* C20: whatever docks were folded, in whatever order, into a non-empty
\* desktop rectangle, the available rectangle is a rectangle (the fold has
\* not failed), is non-empty, lies inside the desktop rectangle, and each
\* dock folded (g_kept is any one of them) either shares no pixel with it or
\* covers it entirely.
C20_FoldResult ==
    ~is_empty(g_desktop)
        => /\ g_avail # PoppedNone
           /\ ~is_empty(g_avail)
           /\ Inside(g_avail, g_desktop)
           /\ g_kept # NoBox => ~Overlaps(g_avail, g_kept) \/ Inside(g_avail, g_kept)

\* three docks were folded; the one singled out overlaps the desktop in
\* part and shares no pixel with what the three of them left
C20_Witness ==
    /\ g_n = 3 /\ g_kept # NoBox
    /\ Overlaps(g_desktop, g_kept) /\ ~Inside(g_desktop, g_kept)
    /\ ~Overlaps(g_avail, g_kept)
    /\ g_avail # dock_fold(g_desktop, g_kept)
    /\ ~is_empty(g_avail)

(***************************************************************************)
(* The candidate list of a fold step (DockSpec)                            *)
(***************************************************************************)
\* the last step met a dock that overlaps the available rectangle in part
PartialOverlap == d_n > 0 /\ LastOverlap # NoBox /\ LastOverlap # d_prev

\* C21: in a fold step whose overlap O with the available rectangle A is
\* non-empty and differs from A, one of A.min.x < O.min.x, A.max.x > O.max.x,
\* A.min.y < O.min.y, A.max.y > O.max.y holds, so the candidate list is not
\* empty, taking its last element does not fail, and the candidate taken is
\* a non-empty rectangle.
C21_CandidatesNeverEmpty ==
    PartialOverlap
        => /\ \/ d_prev.min.x < LastOverlap.min.x
              \/ d_prev.max.x > LastOverlap.max.x
              \/ d_prev.min.y < LastOverlap.min.y
              \/ d_prev.max.y > LastOverlap.max.y
           /\ Len(dock_regions(d_prev, LastOverlap)) >= 1
           /\ d_avail # PoppedNone
           /\ d_avail = Last(dock_regions(d_prev, LastOverlap))
           /\ d_avail.max.x > d_avail.min.x /\ d_avail.max.y > d_avail.min.y

\* a dock along the right edge of an available rectangle that an earlier
\* dock had reduced left exactly one candidate, the part to its left
C21_Witness ==
    /\ PartialOverlap /\ d_n > 1
    /\ Len(dock_regions(d_prev, LastOverlap)) = 1
    /\ d_prev.min.x < LastOverlap.min.x
    /\ d_avail = LeftOfDock(d_prev, LastOverlap)

(***************************************************************************)
(* The categories of the snapshot and the command's recipient (Spec)       *)
(***************************************************************************)
\* C22: the selectable, dock and desktop sets of a snapshot are pairwise
\* disjoint and none of them holds the root; a target that resolution
\* returns is a selectable window; so the window named in the command is a
\* window of type Normal, never a dock, a desktop or the root.
C22_TargetIsSelectable ==
    SnapshotBuilt
        => /\ wg.selectable \cap wg.dock = {}
           /\ wg.selectable \cap wg.desktop = {}
           /\ wg.dock \cap wg.desktop = {}
           /\ RootId \notin (wg.selectable \cup wg.dock \cup wg.desktop)
           /\ target_id # 0 => target_id \in wg.selectable
           /\ sent # <<>>
                 => /\ sent[1].window \in wg.selectable
                    /\ sent[1].window \notin (wg.dock \cup wg.desktop \cup {RootId})
                    /\ wg.windows[sent[1].window].typ = "Normal"

\* the request named a dock, resolution went up to the client above it and
\* the command was sent to that client
C22_Witness ==
    /\ sent # <<>> /\ orig_id \in wg.dock /\ wg.desktop # {}
    /\ target_id \in ProperAncestors(orig_id)
    /\ sent[1].window = target_id /\ target_id \in wg.selectable

=============================================================================
